---- MODULE Spec2Model ----
(***************************************************************************)
(* Grounding pipeline of the digital twin: retrieval, evidence extraction, *)
(* verifier gate and style pass, driven by DigitalTwin.answer.             *)
(*                                                                         *)
(* Strings are sequences of lexical atoms.  An atom is a fragment of text  *)
(* (a word, a phrase, one whitespace character); its length in characters  *)
(* and the outcome of every substring / regex test the code applies to it  *)
(* are tabulated below.  Numbers that are floats in the code (cosine       *)
(* similarity, boosts) are scaled by 10.                                   *)
(***************************************************************************)
EXTENDS Integers, Sequences, FiniteSets, TLC

NULL == "None"

(* ------------------------------ bounds --------------------------------- *)
\* largest number of items in one extraction response
MaxItems == 2
\* largest number of evidence items handed to the gate on its own
MaxEvidence == 4
\* largest number of SemanticMemory constructions in one run
MaxConstructions == 3
\* largest number of items in an extraction response made of valid items
MaxValidItems == 7

(* --------------------------- text primitives --------------------------- *)
WhitespaceAtoms == {"SP", "NL"}

\* len() of one atom, in characters
Width(a) ==
    CASE a \in WhitespaceAtoms -> 1
      [] a = "-" -> 1
      [] a = "___" -> 3
      [] a = "Yes." -> 4
      [] a = "cold" -> 4
      [] a = "mail" -> 4
      [] a = "start" -> 5
      [] a = "token" -> 5
      [] a = "......" -> 6
      [] a = "Archit" -> 6
      [] a = "a@b.co" -> 6
      [] a = "x@y.io" -> 6
      [] a = "minutes" -> 7
      [] a = "invented" -> 8
      [] a = "Sources:" -> 8
      [] a = "[redacted]" -> 10
      [] a = "slack:msg:0" -> 11
      [] a = "From my data:" -> 13
      [] a = "I don't see that." -> 17
      [] a = "The token is abc." -> 17
      [] a = "It took 6-9 minutes." -> 20
      [] a = "Rewritten in my voice." -> 22
      [] a = "I do not see this in your data." -> 31
      [] a = "I do not see a clear record of it." -> 34
      [] a = "I cannot share that because it contains sensitive information." -> 62
      [] a = "I cannot share sensitive information like credentials, passwords, or API keys." -> 78
      [] a = "<a paragraph of 600 characters>" -> 600
      [] OTHER -> 12

RECURSIVE StrLen(_)
StrLen(t) == IF t = <<>> THEN 0 ELSE Width(Head(t)) + StrLen(Tail(t))

RECURSIVE LStrip(_)
LStrip(t) ==
    IF t = <<>> THEN <<>>
    ELSE IF Head(t) \in WhitespaceAtoms THEN LStrip(Tail(t)) ELSE t

RECURSIVE RStrip(_)
RStrip(t) ==
    IF t = <<>> THEN <<>>
    ELSE IF t[Len(t)] \in WhitespaceAtoms THEN RStrip(SubSeq(t, 1, Len(t) - 1)) ELSE t

\* str.strip()
Strip(t) == RStrip(LStrip(t))

RECURSIVE Collapse(_)
Collapse(t) ==
    IF t = <<>> THEN <<>>
    ELSE IF Head(t) \in WhitespaceAtoms
         THEN <<"SP">> \o Collapse(LStrip(t))
         ELSE <<Head(t)>> \o Collapse(Tail(t))

\* ' '.join(text.split())
Normalize(t) == Collapse(Strip(t))

\* q in t
IsSubstring(q, t) ==
    \/ q = <<>>
    \/ \E i \in 1..Len(t) : i + Len(q) - 1 <= Len(t) /\ SubSeq(t, i, i + Len(q) - 1) = q

\* a in s, for one atom
HasAtom(s, A) == \E i \in 1..Len(s) : s[i] \in A

RECURSIVE FilterSeq(_, _)
FilterSeq(s, keep) ==
    IF s = <<>> THEN <<>>
    ELSE (IF keep[1] THEN <<Head(s)>> ELSE <<>>) \o FilterSeq(Tail(s), Tail(keep))

(* ------------------------- raw memory (layer 1) ------------------------ *)
\* timestamp of a chunk that carries none (Python None)
NoTimestamp == 0
NoRange == <<>>

IdentityFile == "data/identity.md"

\* 'identity.md' in source_file
IsIdentityFile(f) == f = IdentityFile

\* the chunk store as RawMemory._load_all leaves it: files in sorted path
\* order, identity.md kept whole, slack files split per message
LoadedChunks ==
    << [id |-> "identity:profile", file |-> IdentityFile, timestamp |-> NoTimestamp,
        text |-> <<"Archit", "SP", "a@b.co">>],
       [id |-> "notes:chunk:0", file |-> "data/notes.md", timestamp |-> NoTimestamp,
        text |-> <<"start", "SP", "......">>],
       [id |-> "slack:msg:0", file |-> "data/slack.md", timestamp |-> 350,
        text |-> <<"cold", "SP", "NL", "start", "SP", "minutes">>],
       [id |-> "slack:msg:1", file |-> "data/slack.md", timestamp |-> 358,
        text |-> <<"mail", "SP", "x@y.io", "SP", "token">>] >>

\* the .md files the data directory can hold, in the order sorted() gives
\* their paths
DataPaths ==
    << "data/archive/notes.md", "data/archive/slack.md", "data/identity.md",
       "data/notes.md", "data/slack.md" >>

\* Path(p).name
NameOf(path) ==
    CASE path \in {"data/archive/notes.md", "data/notes.md"} -> "notes.md"
      [] path \in {"data/archive/slack.md", "data/slack.md"} -> "slack.md"
      [] path = "data/identity.md" -> "identity.md"

\* Path(p).stem
StemOf(path) ==
    CASE NameOf(path) = "notes.md" -> "notes"
      [] NameOf(path) = "slack.md" -> "slack"
      [] NameOf(path) = "identity.md" -> "identity"

\* "slack" in name.lower() or "chat" in name.lower()
IsSlackName(name) == name = "slack.md"

\* text.splitlines() of the two chat files; timestamp is what
\* _parse_timestamp_from_line finds in the line
FileLines(path) ==
    CASE path = "data/slack.md" ->
           << [timestamp |-> 350, text |-> <<"cold", "SP">>],
              [timestamp |-> NoTimestamp, text |-> <<"start", "SP", "minutes">>],
              [timestamp |-> 358, text |-> <<"mail", "SP", "x@y.io", "SP", "token">>] >>
      [] path = "data/archive/slack.md" ->
           << [timestamp |-> NoTimestamp, text |-> <<"mail">>],
              [timestamp |-> 100, text |-> <<"cold", "SP", "start">>] >>
      [] OTHER -> << >>

\* text.split("\n\n") of the document files
FileParagraphs(path) ==
    CASE path = "data/identity.md" -> << <<"Archit", "SP", "a@b.co", "NL">> >>
      [] path = "data/notes.md" -> << <<"start", "SP", "......">> >>
      [] path = "data/archive/notes.md" ->
           << <<"<a paragraph of 600 characters>">>, <<"SP">>,
              <<"<a paragraph of 600 characters>">> >>
      [] OTHER -> << >>

\* one chunk record; the model keeps the fields the pipeline reads
Chunk(id, path, timestamp, text) ==
    [id |-> id, file |-> path, timestamp |-> timestamp, text |-> text]

\* lines 68-77 and 88-97: the message kept when its text is not blank
CloseMessage(messages, current, path) ==
    IF Strip(current.text) # << >>
    THEN Append(messages, Chunk(StemOf(path) \o ":msg:" \o ToString(Len(messages)), path,
                                current.timestamp, Strip(current.text)))
    ELSE messages

RECURSIVE SlackLoop(_, _, _, _)
\* the loop of _parse_slack_messages and its final message
SlackLoop(lines, current, messages, path) ==
    IF lines = << >> THEN CloseMessage(messages, current, path)
    ELSE LET line == Head(lines)
         IN  IF line.timestamp # NoTimestamp
             THEN SlackLoop(Tail(lines), line, CloseMessage(messages, current, path), path)
             ELSE IF current.text # << >>
             THEN SlackLoop(Tail(lines),
                            [current EXCEPT !.text = @ \o <<"NL">> \o line.text],
                            messages, path)
             ELSE SlackLoop(Tail(lines), [timestamp |-> NoTimestamp, text |-> line.text],
                            messages, path)

\* RawMemory._parse_slack_messages
parse_slack_messages(lines, path) ==
    SlackLoop(lines, [timestamp |-> NoTimestamp, text |-> << >>], << >>, path)

RECURSIVE JoinParagraphs(_)
\* the text of a document: its paragraphs with "\n\n" between them
JoinParagraphs(paras) ==
    IF paras = << >> THEN << >>
    ELSE Head(paras) \o (IF Len(paras) > 1 THEN <<"NL", "NL">> ELSE << >>)
         \o JoinParagraphs(Tail(paras))

\* lines 131-139 and 149-157: one document chunk
DocumentChunk(chunks, current_chunk, path) ==
    Append(chunks, Chunk(StemOf(path) \o ":chunk:" \o ToString(Len(chunks)), path,
                         NoTimestamp, Strip(current_chunk)))

RECURSIVE DocumentLoop(_, _, _, _)
\* the paragraph loop of _parse_document and its final chunk
DocumentLoop(paras, current_chunk, chunks, path) ==
    IF paras = << >>
    THEN IF Strip(current_chunk) # << >> THEN DocumentChunk(chunks, current_chunk, path)
         ELSE chunks
    ELSE LET para == Head(paras)
         IN  IF Strip(para) = << >> THEN DocumentLoop(Tail(paras), current_chunk, chunks, path)
             ELSE IF StrLen(current_chunk) + StrLen(para) > 1000 /\ current_chunk # << >>
             THEN DocumentLoop(Tail(paras), para,
                               DocumentChunk(chunks, current_chunk, path), path)
             ELSE DocumentLoop(Tail(paras),
                               IF current_chunk # << >>
                               THEN current_chunk \o <<"NL", "NL">> \o para ELSE para,
                               chunks, path)

\* RawMemory._parse_document
parse_document(paras, path) ==
    IF NameOf(path) = "identity.md"
    THEN << Chunk("identity:profile", path, NoTimestamp, Strip(JoinParagraphs(paras))) >>
    ELSE DocumentLoop(paras, << >>, << >>, path)

RECURSIVE LoadFiles(_, _)
\* RawMemory._load_all over the sorted paths; dir[path] is "absent",
\* "readable", or "unreadable" for a file whose read_text raises
LoadFiles(paths, dir) ==
    IF paths = << >> THEN << >>
    ELSE (IF dir[Head(paths)] # "readable" THEN << >>
          ELSE IF IsSlackName(NameOf(Head(paths)))
          THEN parse_slack_messages(FileLines(Head(paths)), Head(paths))
          ELSE parse_document(FileParagraphs(Head(paths)), Head(paths)))
         \o LoadFiles(Tail(paths), dir)

load_all(dir) == LoadFiles(DataPaths, dir)

\* the data directory LoadedChunks was loaded from
DefaultDir ==
    [path \in {DataPaths[i] : i \in 1..Len(DataPaths)} |->
        IF path \in {"data/identity.md", "data/notes.md", "data/slack.md"}
        THEN "readable" ELSE "absent"]

\* RawMemory.get_chunk_by_id: the first chunk with the id, <<>> for None
get_chunk_by_id(chunks, chunk_id) ==
    LET hits == {i \in 1..Len(chunks) : chunks[i].id = chunk_id}
    IN  IF hits = {} THEN <<>>
        ELSE <<chunks[CHOOSE i \in hits : \A j \in hits : i <= j]>>

\* RawMemory.get_chunks_by_time_range
get_chunks_by_time_range(chunks, start, end) ==
    FilterSeq(chunks, [i \in 1..Len(chunks) |->
        chunks[i].timestamp # NoTimestamp /\ start <= chunks[i].timestamp
                                           /\ chunks[i].timestamp <= end])

(* ----------------------- semantic memory (layer 2) --------------------- *)
\* the summary text of a period: what the generation call returned, or the
\* text stored when the call failed
GeneratedSummary == "<summary of the week>"
FailedSummary == "Summary generation failed"

\* chunks[:20], the chunks of a week that go into the summary prompt
SummaryChunkLimit == 20

\* the summaries SemanticMemory holds after construction; embedding is TRUE
\* for a stored vector and FALSE for null
SummaryStates ==
    { << >>,
      << [week |-> 50, summary |-> GeneratedSummary, chunk_ids |-> <<"slack:msg:0">>,
          embedding |-> TRUE],
         [week |-> 51, summary |-> GeneratedSummary, chunk_ids |-> <<"slack:msg:1">>,
          embedding |-> TRUE] >>,
      << [week |-> 50, summary |-> GeneratedSummary, chunk_ids |-> <<"slack:msg:0">>,
          embedding |-> FALSE],
         [week |-> 51, summary |-> GeneratedSummary, chunk_ids |-> <<"slack:msg:1">>,
          embedding |-> TRUE] >>,
      << [week |-> 50, summary |-> GeneratedSummary,
          chunk_ids |-> <<"slack:msg:0", "slack:msg:7">>, embedding |-> TRUE] >> }

\* cosine similarities (x10) the embedding service can produce
SimVals == {-2, 0, 6}
\* the similarities drawn when the whole pipeline runs
PipelineSims == {6}

RECURSIVE SortDesc_Unstable(_)
\* a descending sort that puts a later element before the earlier ones of
\* equal score
SortDesc_Unstable(s) ==
    IF s = <<>> THEN <<>>
    ELSE LET front == SortDesc_Unstable(SubSeq(s, 1, Len(s) - 1))
             x == s[Len(s)]
             k == Cardinality({i \in 1..Len(front) : front[i].score > x.score})
         IN  SubSeq(front, 1, k) \o <<x>> \o SubSeq(front, k + 1, Len(front))

RECURSIVE SortDesc(_)
\* list.sort(key=score, reverse=True): stable, descending
SortDesc(s) ==
    IF s = <<>> THEN <<>>
    ELSE LET front == SortDesc(SubSeq(s, 1, Len(s) - 1))
             x == s[Len(s)]
             k == Cardinality({i \in 1..Len(front) : front[i].score >= x.score})
         IN  SubSeq(front, 1, k) \o <<x>> \o SubSeq(front, k + 1, Len(front))

\* slice s[:n]
Take(s, n) == SubSeq(s, 1, IF n < Len(s) THEN n ELSE Len(s))

\* SemanticMemory.find_relevant_weeks; weekSim[i] is the similarity the
\* embeddings of the query and of summary i yield
find_relevant_weeks(sums, weekSim, top_k) ==
    IF sums = <<>> THEN <<>>
    ELSE LET scored == [i \in 1..Len(sums) |->
                 [score |-> IF sums[i].embedding THEN weekSim[i] ELSE 0,
                  summary |-> sums[i]]]
             sorted == SortDesc(scored)
         IN  [i \in 1..Len(Take(sorted, top_k)) |-> sorted[i].summary]

RECURSIVE get_chunk_ids_for_weeks(_)
\* SemanticMemory.get_chunk_ids_for_weeks
get_chunk_ids_for_weeks(weeks) ==
    IF weeks = <<>> THEN <<>>
    ELSE Head(weeks).chunk_ids \o get_chunk_ids_for_weeks(Tail(weeks))

\* strftime("%U") of a day of 2025: weeks start on Sunday, day 5 is the
\* first Sunday
WeekOf(timestamp) == IF timestamp < 5 THEN 0 ELSE (timestamp - 5) \div 7 + 1

RECURSIVE WeekKeys(_, _)
\* keys of weekly_groups in insertion order: the weeks of the timestamped
\* chunks, each at its first occurrence
WeekKeys(chunks, seen) ==
    IF chunks = <<>> THEN seen
    ELSE IF Head(chunks).timestamp = NoTimestamp
            \/ WeekOf(Head(chunks).timestamp) \in {seen[i] : i \in 1..Len(seen)}
         THEN WeekKeys(Tail(chunks), seen)
         ELSE WeekKeys(Tail(chunks), Append(seen, WeekOf(Head(chunks).timestamp)))

\* [c["id"] for c in chunks] of one weekly group
WeekChunkIds(chunks, week) ==
    LET members == FilterSeq(chunks, [i \in 1..Len(chunks) |->
                       chunks[i].timestamp # NoTimestamp /\ WeekOf(chunks[i].timestamp) = week])
    IN  [i \in 1..Len(members) |-> members[i].id]

\* SemanticMemory._generate_weekly_summaries; gen_ok[w] and embed_ok[w] tell
\* whether the generation call and the embedding call for week w succeeded
generate_weekly_summaries(chunks, gen_ok, embed_ok) ==
    LET keys == WeekKeys(chunks, <<>>)
    IN  [i \in 1..Len(keys) |->
            [week |-> keys[i],
             summary |-> IF gen_ok[keys[i]] THEN GeneratedSummary ELSE FailedSummary,
             chunk_ids |-> WeekChunkIds(chunks, keys[i]),
             embedding |-> embed_ok[keys[i]]]]

\* per week, the ids of the chunks whose text goes into the summary prompt
SummaryInputs(chunks) ==
    LET keys == WeekKeys(chunks, <<>>)
    IN  [i \in 1..Len(keys) |-> Take(WeekChunkIds(chunks, keys[i]), SummaryChunkLimit)]

RECURSIVE GenerationCalls(_)
\* the model calls of _generate_weekly_summaries for n weeks
GenerationCalls(n) ==
    IF n = 0 THEN <<>> ELSE <<"summarize", "embed_summary">> \o GenerationCalls(n - 1)

\* the cache file .cache/semantic_summaries.json: absent, opened for
\* writing and not yet written, or holding a dumped list
NoCacheFile == [present |-> FALSE, complete |-> FALSE, summaries |-> <<>>]
OpenedCacheFile == [present |-> TRUE, complete |-> FALSE, summaries |-> <<>>]
WrittenCacheFile(sums) == [present |-> TRUE, complete |-> TRUE, summaries |-> sums]

\* the store loaded when data/slack.md holds one message more than the
\* summary prompt takes, all of one week
LongWeekStore ==
    SubSeq(LoadedChunks, 1, 2)
        \o [i \in 1..(SummaryChunkLimit + 1) |->
               Chunk("slack:msg:" \o ToString(i - 1), "data/slack.md", 350 + (i % 2),
                     <<"cold">>)]

\* the data directory with an archived chat file next to the current one
ArchiveDir == [DefaultDir EXCEPT !["data/archive/slack.md"] = "readable"]

\* chunk stores RawMemory can hold at different constructions: the loaded
\* one, one where the second message carries an earlier date, and one
\* without the slack file
Stores ==
    { LoadedChunks,
      [i \in 1..Len(LoadedChunks) |->
          IF LoadedChunks[i].id = "slack:msg:1"
          THEN [LoadedChunks[i] EXCEPT !.timestamp = 352] ELSE LoadedChunks[i]],
      SubSeq(LoadedChunks, 1, 2) }

\* the summaries generated from the store loaded from ArchiveDir, every
\* call succeeding
ArchivedSummaries ==
    generate_weekly_summaries(load_all(ArchiveDir), [w \in 0..53 |-> TRUE],
                              [w \in 0..53 |-> TRUE])

\* the stores the summaries are generated from when one construction runs
\* on its own: those above, the one with a long week, and the one loaded
\* from ArchiveDir
GenerationStores == Stores \cup {LongWeekStore, load_all(ArchiveDir)}

(* ---------------------- query understanding (layer 3) ------------------ *)
Questions ==
    { <<"SP", "Hi">>,
      <<"help">>,
      <<"How long did cold start take?">>,
      <<"Where do you live?">>,
      <<"What is", "SP", "your", "SP", "password?">>,
      <<"What happened", "SP", "with the token?">>,
      <<"What was I working on", "SP", "in", "SP", "Q4 2025?">> }

\* QueryUnderstanding.parse_date_range: the quarter pattern, in days of 2025
parse_date_range(query) ==
    IF HasAtom(query, {"Q4 2025?"}) THEN <<274, 365>> ELSE NoRange

\* the answer-mode test of DigitalTwin.answer
is_summary_mode(question, date_range) ==
    \/ date_range # NoRange
    \/ (question # <<>> /\ Head(question) \in {"What happened", "What was I working on"})

answer_mode_of(question, date_range) ==
    IF is_summary_mode(question, date_range) THEN "SUMMARY_MODE" ELSE "FACT_MODE"

\* question.strip().lower() in greetings / help_intents
is_greeting(question) == Strip(question) \in {<<"Hi">>}
is_help(question) == Strip(question) \in {<<"help">>}

(* --------------------------- retrieval (layer 4) ----------------------- *)
\* atoms whose lowercase form contains one of personal_keywords
PersonalAtoms == {"your", "Where do you live?", "What was I working on"}

is_personal_query(query) == HasAtom(query, PersonalAtoms)

RECURSIVE ResolveIds(_, _)
\* step 2 of retrieve: ids that resolve in the store, in order
ResolveIds(chunks, ids) ==
    IF ids = <<>> THEN <<>>
    ELSE get_chunk_by_id(chunks, Head(ids)) \o ResolveIds(chunks, Tail(ids))

IdsOf(cs) == {cs[i].id : i \in 1..Len(cs)}

\* appends the chunks of extra whose id is not in the fixed set existing
AppendMissing(cands, extra, existing) ==
    cands \o FilterSeq(extra, [i \in 1..Len(extra) |-> extra[i].id \notin existing])

RECURSIVE AppendIdentity_NoDedup(_, _, _)
\* an identity loop that appends every profile chunk, already present or not
AppendIdentity_NoDedup(cands, extra, existing) ==
    IF extra = <<>> THEN cands
    ELSE AppendIdentity_NoDedup(Append(cands, Head(extra)), Tail(extra),
                                existing \cup {Head(extra).id})

RECURSIVE AppendIdentity(_, _, _)
\* the identity loop of retrieve, which grows existing_ids as it appends
AppendIdentity(cands, extra, existing) ==
    IF extra = <<>> THEN cands
    ELSE IF Head(extra).id \in existing
         THEN AppendIdentity(cands, Tail(extra), existing)
         ELSE AppendIdentity(Append(cands, Head(extra)), Tail(extra),
                             existing \cup {Head(extra).id})

\* [w.get("week") for w in relevant_weeks] of the metadata
WeeksOf(weeks) == [i \in 1..Len(weeks) |-> weeks[i].week]

\* candidate_chunks of retrieve after steps 1-2 and the date range rule: a
\* list of its own, built from the chunks the coarse index and the range name
RoutedChunks(chunks, sums, date_range, weekSim) ==
    LET weeks == find_relevant_weeks(sums, weekSim, 3)
        seeded == ResolveIds(chunks, get_chunk_ids_for_weeks(weeks))
    IN  IF date_range # NoRange
        THEN AppendMissing(seeded,
                 get_chunks_by_time_range(chunks, date_range[1], date_range[2]),
                 IdsOf(seeded))
        ELSE seeded

\* [c for c in all_chunks if 'identity.md' in c['file']]
IdentityChunks(chunks) ==
    FilterSeq(chunks, [i \in 1..Len(chunks) |-> IsIdentityFile(chunks[i].file)])

\* candidate chunks of retrieve, steps 1-2 and the date range, fallback and
\* identity rules
CandidateChunks(chunks, sums, query, date_range, weekSim) ==
    LET ranged == RoutedChunks(chunks, sums, date_range, weekSim)
        filled == IF ranged = <<>> THEN chunks ELSE ranged
    IN  IF is_personal_query(query)
        THEN AppendIdentity(filled, IdentityChunks(chunks), IdsOf(filled))
        ELSE filled

\* the list RawMemory holds when retrieve returns.  get_all_chunks hands out
\* that list itself, so after the fallback of line 75 candidate_chunks is
\* the store and the identity loop appends to the store
StoreAfterRetrieve(chunks, sums, query, date_range, weekSim) ==
    IF RoutedChunks(chunks, sums, date_range, weekSim) = <<>> /\ is_personal_query(query)
    THEN AppendIdentity(chunks, IdentityChunks(chunks), IdsOf(chunks))
    ELSE chunks

\* score of one candidate (x10): similarity plus the two boosts, 0.0 when
\* the chunk has no embedding
ScoreOf(chunk, query, date_range, embedded, chunkSim) ==
    IF ~embedded THEN 0
    ELSE chunkSim[chunk.id]
         + (IF is_personal_query(query) /\ IsIdentityFile(chunk.file) THEN 5 ELSE 0)
         + (IF /\ date_range # NoRange
               /\ chunk.timestamp # NoTimestamp
               /\ date_range[1] <= chunk.timestamp
               /\ chunk.timestamp <= date_range[2] THEN 3 ELSE 0)

RECURSIVE SelectTopK_LateBudget(_, _, _, _, _)
\* SelectTopK with the budget tested against the characters already
\* selected, not against the total the next chunk would give
SelectTopK_LateBudget(scores, selected, total_chars, top_k, max_context_chars) ==
    IF scores = <<>> THEN selected
    ELSE IF Len(selected) >= top_k THEN selected
    ELSE IF total_chars > max_context_chars THEN selected
    ELSE SelectTopK_LateBudget(Tail(scores), Append(selected, Head(scores)),
                    total_chars + StrLen(Head(scores).chunk.text), top_k, max_context_chars)

RECURSIVE SelectTopK(_, _, _, _, _)
\* step 4 of retrieve: greedy selection, stops at the first violation
SelectTopK(scores, selected, total_chars, top_k, max_context_chars) ==
    IF scores = <<>> THEN selected
    ELSE IF Len(selected) >= top_k THEN selected
    ELSE IF total_chars + StrLen(Head(scores).chunk.text) > max_context_chars THEN selected
    ELSE SelectTopK(Tail(scores), Append(selected, Head(scores)),
                    total_chars + StrLen(Head(scores).chunk.text), top_k, max_context_chars)

\* retrieve without the early return of lines 49-50
retrieve_NoEarlyReturn(chunks, sums, query, date_range, top_k, max_context_chars, q_ok, weekSim, c_ok, chunkSim) ==
    LET cands == CandidateChunks(chunks, sums, query, date_range, weekSim)
        scores == [i \in 1..Len(cands) |->
                      [chunk |-> cands[i],
                       score |-> ScoreOf(cands[i], query, date_range, c_ok, chunkSim)]]
    IN  [chunks |-> SelectTopK(SortDesc(scores), <<>>, 0, top_k, max_context_chars),
         total_candidates |-> Len(cands),
         relevant_weeks |-> WeeksOf(find_relevant_weeks(sums, weekSim, 3)),
         store |-> StoreAfterRetrieve(chunks, sums, query, date_range, weekSim),
         error |-> ~q_ok,
         scored |-> [i \in 1..Len(cands) |->
                        [chunk |-> cands[i], score |-> scores[i].score, embedded |-> c_ok]],
         calls |-> <<"embed_query", "find_relevant_weeks", "raw_memory", "embed_chunks">>]

\* Retrieval.retrieve: the chunks, the total_candidates and relevant_weeks
\* of its metadata (0 and empty when the metadata holds the error instead),
\* the list RawMemory holds afterwards, the error flag, the
\* scores list in candidate order with, per chunk, whether its id was in
\* chunk_embeddings, and the calls it made to the embedding service, the coarse index and the chunk
\* store, in order.  q_ok: the query embedding succeeded; c_ok: the batch
\* embedding of the candidates succeeded
retrieve(chunks, sums, query, date_range, top_k, max_context_chars, q_ok, weekSim, c_ok, chunkSim) ==
    IF ~q_ok THEN [chunks |-> <<>>, total_candidates |-> 0, relevant_weeks |-> <<>>,
                   store |-> chunks, error |-> TRUE,
                   scored |-> <<>>, calls |-> <<"embed_query">>]
    ELSE LET cands == CandidateChunks(chunks, sums, query, date_range, weekSim)
             scores == [i \in 1..Len(cands) |->
                           [chunk |-> cands[i],
                            score |-> ScoreOf(cands[i], query, date_range, c_ok, chunkSim)]]
         IN  [chunks |-> SelectTopK(SortDesc(scores), <<>>, 0, top_k, max_context_chars),
              total_candidates |-> Len(cands),
              relevant_weeks |-> WeeksOf(find_relevant_weeks(sums, weekSim, 3)),
              store |-> StoreAfterRetrieve(chunks, sums, query, date_range, weekSim),
              error |-> FALSE,
              scored |-> [i \in 1..Len(cands) |->
                             [chunk |-> cands[i], score |-> scores[i].score,
                              embedded |-> c_ok]],
              calls |-> <<"embed_query", "find_relevant_weeks", "raw_memory", "embed_chunks">>]

(* ---------------------- evidence extraction (layer 5) ------------------ *)
\* quotes the generation service can put in an extraction response
QuoteTexts ==
    { <<"cold", "SP", "start", "NL">>,
      <<"start">>,
      <<"mail", "SP", "x@y.io">>,
      <<"x@y.io", "SP", "token">>,
      <<"Archit", "SP", "a@b.co">>,
      <<"invented">> }

\* one element of the "evidence" array of an extraction response.  shape
\* "ok": an object with an integer chunk_index and a string quote;
\* "index_not_int": an object whose chunk_index is a string;
\* "not_object": an element that is not an object
ResponseItems(n) ==
    [shape : {"ok"}, chunk_index : -1..n, quote : QuoteTexts]
    \cup [shape : {"index_not_int", "not_object"}, chunk_index : {0}, quote : {<<"invented">>}]

\* sequences over S of length at most n
SeqsUpTo(S, n) == UNION {[1..k -> S] : k \in 0..n}

\* what the extraction call can yield for n retrieved chunks: a failed call,
\* text that is not JSON, JSON that is not an object, or an object with an
\* "evidence" array
ExtractionResponses(n) ==
    {[kind |-> k, items |-> <<>>] : k \in {"call_failed", "not_json", "json_non_object"}}
    \cup {[kind |-> "object", items |-> its] : its \in SeqsUpTo(ResponseItems(n), MaxItems)}

\* how a response reads as structured output
ResponseClass(resp) ==
    IF resp.kind # "object" THEN resp.kind
    ELSE IF \E i \in 1..Len(resp.items) : resp.items[i].shape # "ok" THEN "malformed_item"
    ELSE "well_formed"

\* min_quote_length
min_quote_length(answer_mode) == IF answer_mode = "SUMMARY_MODE" THEN 5 ELSE 8

\* ItemValid without the verbatim test
ItemValid_NoVerbatim(item, retrieved_chunks, answer_mode) ==
    /\ item.chunk_index >= 0
    /\ item.chunk_index < Len(retrieved_chunks)
    /\ StrLen(Strip(item.quote)) >= min_quote_length(answer_mode)

\* the three validations of one well-typed item; TRUE when it is kept
ItemValid(item, retrieved_chunks, answer_mode) ==
    /\ item.chunk_index >= 0
    /\ item.chunk_index < Len(retrieved_chunks)
    /\ StrLen(Strip(item.quote)) >= min_quote_length(answer_mode)
    /\ IsSubstring(Normalize(Strip(item.quote)),
                   Normalize(retrieved_chunks[item.chunk_index + 1].chunk.text))

EvidenceOf(item, retrieved_chunks) ==
    LET chunk == retrieved_chunks[item.chunk_index + 1].chunk
    IN  [quote |-> Strip(item.quote), chunk_id |-> chunk.id,
         file |-> chunk.file, timestamp |-> chunk.timestamp]

RECURSIVE ParseItems_StopAtInvalid(_, _, _, _)
\* ParseItems with break in place of continue: the first item that fails a
\* validation ends the loop
ParseItems_StopAtInvalid(items, acc, retrieved_chunks, answer_mode) ==
    IF items = <<>> THEN [evidence |-> acc, raised |-> FALSE]
    ELSE LET item == Head(items)
         IN  CASE item.shape = "not_object" -> [evidence |-> acc, raised |-> TRUE]
               [] item.shape = "index_not_int" -> [evidence |-> acc, raised |-> FALSE]
               [] OTHER ->
                    IF ItemValid(item, retrieved_chunks, answer_mode)
                    THEN ParseItems_StopAtInvalid(Tail(items),
                                                  Append(acc, EvidenceOf(item, retrieved_chunks)),
                                                  retrieved_chunks, answer_mode)
                    ELSE [evidence |-> acc, raised |-> FALSE]

RECURSIVE ParseItems(_, _, _, _)
\* the loop over data["evidence"].  A TypeError (caught by the except
\* clause) ends the loop with the items appended so far; an AttributeError
\* is not caught and leaves extract
ParseItems(items, acc, retrieved_chunks, answer_mode) ==
    IF items = <<>> THEN [evidence |-> acc, raised |-> FALSE]
    ELSE LET item == Head(items)
         IN  CASE item.shape = "not_object" -> [evidence |-> acc, raised |-> TRUE]
               [] item.shape = "index_not_int" -> [evidence |-> acc, raised |-> FALSE]
               [] OTHER ->
                    ParseItems(Tail(items),
                               IF ItemValid(item, retrieved_chunks, answer_mode)
                               THEN Append(acc, EvidenceOf(item, retrieved_chunks))
                               ELSE acc,
                               retrieved_chunks, answer_mode)

\* lines 97-101: the returned record, with the exception flag
ExtractResult(parsed) ==
    [evidence |-> parsed.evidence, has_evidence |-> Len(parsed.evidence) > 0,
     raised |-> parsed.raised, called |-> TRUE]

\* EvidenceExtraction.extract.  called: the generation call was issued
extract(retrieved_chunks, answer_mode, resp) ==
    IF retrieved_chunks = <<>>
    THEN [evidence |-> <<>>, has_evidence |-> FALSE, raised |-> FALSE, called |-> FALSE]
    ELSE CASE resp.kind \in {"call_failed", "not_json"} ->
                  ExtractResult([evidence |-> <<>>, raised |-> FALSE])
           [] resp.kind = "json_non_object" ->
                  ExtractResult([evidence |-> <<>>, raised |-> TRUE])
           [] OTHER ->
                  ExtractResult(ParseItems(resp.items, <<>>, retrieved_chunks, answer_mode))

(* ------------------------ verifier gate (layer 6) ---------------------- *)
RefusalText == <<"I do not see this in your data.">>
QuestionBlockText ==
    <<"I cannot share sensitive information like credentials, passwords, or API keys.">>
AnswerBlockText == <<"I cannot share that because it contains sensitive information.">>

\* atoms matched by one of sensitive_patterns or holding one of
\* sensitive_keywords
SensitiveAtoms ==
    { "token", "password?", "with the token?", "The token is abc.",
      "I cannot share sensitive information like credentials, passwords, or API keys." }

\* atoms matched by email_pattern
EmailAtoms == {"a@b.co", "x@y.io"}

\* atoms whose lowercase form contains "do not see"
DoNotSeeAtoms ==
    {"I do not see this in your data.", "I do not see a clear record of it."}

\* atoms made of "_", "." and "-" only
FillerAtoms == {"___", "......", "-"}

\* VerifierGate._contains_sensitive_info
contains_sensitive_info(text, source_file) ==
    IF text = <<>> THEN FALSE
    ELSE IF IsIdentityFile(source_file) THEN FALSE
    ELSE HasAtom(text, SensitiveAtoms)

\* what the entailment call can yield
EntailmentOutcomes == {"call_failed", "unparseable", "yes", "no", "unknown"}

\* VerifierGate._entailment_state
entailment_state(evidence_quotes, outcome) ==
    IF evidence_quotes = <<>> THEN "no"
    ELSE IF outcome \in {"call_failed", "unparseable"} THEN "unknown"
    ELSE outcome

\* re.sub(email_pattern, '[redacted]', quote_text)
RedactEmails(t) == [i \in 1..Len(t) |-> IF t[i] \in EmailAtoms THEN "[redacted]" ELSE t[i]]

\* is_valid of the citation loop
is_valid_quote(quote_text) ==
    /\ quote_text # <<>>
    /\ StrLen(quote_text) > 5
    /\ quote_text \notin {<<"___">>}
    /\ \E i \in 1..Len(quote_text) : quote_text[i] \notin FillerAtoms \cup WhitespaceAtoms

CitationOf(ev, text) ==
    [text |-> text, source |-> ev.file, chunk_id |-> ev.chunk_id, timestamp |-> ev.timestamp]

RECURSIVE BuildCitations(_)
\* the citation loop of generate_answer (lines 273-301)
BuildCitations(evs) ==
    IF evs = <<>> THEN <<>>
    ELSE LET ev == Head(evs)
             stripped == Strip(ev.quote)
             quote_text == IF IsIdentityFile(ev.file) THEN stripped ELSE RedactEmails(stripped)
         IN  (IF is_valid_quote(stripped) /\ ~contains_sensitive_info(quote_text, ev.file)
              THEN <<CitationOf(ev, quote_text)>> ELSE <<>>)
             \o BuildCitations(Tail(evs))

RECURSIVE SeenChunks_NoCap(_, _)
\* SeenChunks without the limit of 3 quote lines
SeenChunks_NoCap(evs, lines) ==
    IF evs = <<>> THEN lines
    ELSE IF Head(evs).chunk_id \notin {lines[i].chunk_id : i \in 1..Len(lines)}
         THEN SeenChunks_NoCap(Tail(evs), Append(lines, Head(evs)))
         ELSE SeenChunks_NoCap(Tail(evs), lines)

RECURSIVE SeenChunks(_, _)
\* seen_chunks of the quote-only branch, as the ordered list of the evidence
\* items whose quote became a quote line
SeenChunks(evs, lines) ==
    IF evs = <<>> THEN lines
    ELSE IF Head(evs).chunk_id \notin {lines[i].chunk_id : i \in 1..Len(lines)} /\ Len(lines) < 3
         THEN SeenChunks(Tail(evs), Append(lines, Head(evs)))
         ELSE SeenChunks(Tail(evs), lines)

RECURSIVE QuoteLines(_)
\* "\n".join(quote_lines)
QuoteLines(lines) ==
    IF lines = <<>> THEN <<>>
    ELSE <<"-", "SP">> \o Head(lines).quote
         \o (IF Len(lines) > 1 THEN <<"NL">> ELSE <<>>) \o QuoteLines(Tail(lines))

Verdict(answer, confidence, reasoning, citations) ==
    [answer |-> answer, confidence |-> confidence, reasoning |-> reasoning,
     citations |-> citations]

\* the quote-only fallback of generate_answer (lines 170-205)
QuoteOnlyVerdict(evs) ==
    LET lines == SeenChunks(evs, <<>>)
        seen == {lines[i].chunk_id : i \in 1..Len(lines)}
        cited == FilterSeq(evs, [i \in 1..Len(evs) |-> evs[i].chunk_id \in seen])
    IN  IF lines # <<>>
        THEN Verdict(<<"From my data:", "NL">> \o QuoteLines(lines), "medium",
                     "Entailment unclear, returning quote-only answer.",
                     [i \in 1..Len(cited) |-> CitationOf(cited[i], cited[i].quote)])
        ELSE Verdict(RefusalText, "none",
                     "Cannot verify if evidence supports the question.", <<>>)

\* answers the generation service can return
GeneratedAnswers ==
    { <<>>,
      <<"SP", "NL">>,
      <<"I do not see this in your data.">>,
      <<"I do not see a clear record of it.">>,
      <<"I don't see that.">>,
      <<"Yes.">>,
      <<"The token is abc.">>,
      <<"It took 6-9 minutes.", "SP">>,
      <<"It took 6-9 minutes.", "NL", "Sources:", "SP", "slack:msg:0">> }

\* what an answer or restyle generation call can yield: a failure or a text
GenerationOutcomes ==
    {[ok |-> FALSE, text |-> <<>>]} \cup {[ok |-> TRUE, text |-> t] : t \in GeneratedAnswers}

\* lines 244-256: the generated text, the refusal text on failure or when
\* the text is blank
AnswerTextOf(gen) ==
    LET raw == IF gen.ok THEN gen.text ELSE RefusalText
    IN  IF Strip(raw) = <<>> THEN RefusalText ELSE Strip(raw)

\* AssessConfidence with the citation count ahead of the summary boost
AssessConfidence_ByCitations(is_refusal, summary_confidence_boost, ncitations) ==
    IF is_refusal THEN "none"
    ELSE IF ncitations >= 2 THEN "high"
    ELSE IF summary_confidence_boost # NULL THEN summary_confidence_boost
    ELSE "medium"

\* lines 303-312
AssessConfidence(is_refusal, summary_confidence_boost, ncitations) ==
    IF is_refusal THEN "none"
    ELSE IF summary_confidence_boost # NULL THEN summary_confidence_boost
    ELSE IF ncitations >= 2 THEN "high"
    ELSE "medium"

BasedOn(n) == "Based on " \o ToString(n) \o " valid citation(s) from retrieved context."

\* GeneratedVerdict with the scan skipped only when every evidence item
\* comes from the profile record
GeneratedVerdict_AllFromIdentity(evs, summary_confidence_boost, gen) ==
    LET answer_text == AnswerTextOf(gen)
        is_from_identity == \A i \in 1..Len(evs) : IsIdentityFile(evs[i].file)
        citations == BuildCitations(evs)
    IN  IF ~is_from_identity /\ contains_sensitive_info(answer_text, "")
        THEN Verdict(AnswerBlockText, "none",
                     "Answer blocked due to sensitive information detection.", <<>>)
        ELSE Verdict(answer_text,
                     AssessConfidence(HasAtom(answer_text, DoNotSeeAtoms),
                                      summary_confidence_boost, Len(citations)),
                     BasedOn(Len(citations)), citations)

\* lines 211-319: generation, the sensitive scan, citations and confidence
GeneratedVerdict(evs, summary_confidence_boost, gen) ==
    LET answer_text == AnswerTextOf(gen)
        is_from_identity == \E i \in 1..Len(evs) : IsIdentityFile(evs[i].file)
        citations == BuildCitations(evs)
    IN  IF ~is_from_identity /\ contains_sensitive_info(answer_text, "")
        THEN Verdict(AnswerBlockText, "none",
                     "Answer blocked due to sensitive information detection.", <<>>)
        ELSE Verdict(answer_text,
                     AssessConfidence(HasAtom(answer_text, DoNotSeeAtoms),
                                      summary_confidence_boost, Len(citations)),
                     BasedOn(Len(citations)), citations)

\* SummaryBranch with the entailment call of fact mode ahead of the generation
SummaryBranch_WithEntailment(evs, gen) ==
    LET unique_chunks == {evs[i].chunk_id : i \in 1..Len(evs)}
    IN  [verdict |-> GeneratedVerdict(evs,
                        IF Cardinality(unique_chunks) >= 2 THEN "high" ELSE "medium", gen),
         entailment |-> "yes",
         calls |-> <<"entailment", "answer">>]

\* lines 142-155: summary mode, no entailment check
SummaryBranch(evs, gen) ==
    LET unique_chunks == {evs[i].chunk_id : i \in 1..Len(evs)}
    IN  [verdict |-> GeneratedVerdict(evs,
                        IF Cardinality(unique_chunks) >= 2 THEN "high" ELSE "medium", gen),
         entailment |-> "yes",
         calls |-> <<"answer">>]

\* FactBranch with "no" falling through to the quote-only fallback
FactBranch_NoAsUnknown(evs, entail, gen) ==
    LET entailment == entailment_state([i \in 1..Len(evs) |-> evs[i].quote], entail)
    IN  IF entailment \in {"no", "unknown"}
        THEN [verdict |-> QuoteOnlyVerdict(evs),
              entailment |-> entailment,
              calls |-> <<"entailment">>]
        ELSE [verdict |-> GeneratedVerdict(evs, NULL, gen),
              entailment |-> entailment,
              calls |-> <<"entailment", "answer">>]

\* lines 156-208: fact mode, the entailment check and its three outcomes
FactBranch(evs, entail, gen) ==
    LET entailment == entailment_state([i \in 1..Len(evs) |-> evs[i].quote], entail)
    IN  IF entailment = "no"
        THEN [verdict |-> Verdict(RefusalText, "none",
                                  "Evidence does not support the question.", <<>>),
              entailment |-> entailment,
              calls |-> <<"entailment">>]
        ELSE IF entailment = "unknown"
        THEN [verdict |-> QuoteOnlyVerdict(evs),
              entailment |-> entailment,
              calls |-> <<"entailment">>]
        ELSE [verdict |-> GeneratedVerdict(evs, NULL, gen),
              entailment |-> entailment,
              calls |-> <<"entailment", "answer">>]

\* generate_answer with the evidence test ahead of the sensitive-question test
generate_answer_EvidenceFirst(question, evidence, answer_mode, entail, gen) ==
    IF ~evidence.has_evidence \/ Len(evidence.evidence) = 0
    THEN [verdict |-> Verdict(RefusalText, "none",
                        "No supporting evidence found in the data.", <<>>),
          entailment |-> "not_run",
          calls |-> <<>>]
    ELSE IF contains_sensitive_info(question, "")
    THEN [verdict |-> Verdict(QuestionBlockText, "none",
                        "Question blocked due to requesting sensitive information.", <<>>),
          entailment |-> "not_run",
          calls |-> <<>>]
    ELSE IF answer_mode = "SUMMARY_MODE"
    THEN SummaryBranch(evidence.evidence, gen)
    ELSE FactBranch(evidence.evidence, entail, gen)

\* VerifierGate.generate_answer.  entailment: the entailment state it
\* worked with, "not_run" when it returned before the mode branch;
\* calls: the model calls it issued, in order
generate_answer(question, evidence, answer_mode, entail, gen) ==
    IF contains_sensitive_info(question, "")
    THEN [verdict |-> Verdict(QuestionBlockText, "none",
                        "Question blocked due to requesting sensitive information.", <<>>),
          entailment |-> "not_run",
          calls |-> <<>>]
    ELSE IF ~evidence.has_evidence \/ Len(evidence.evidence) = 0
    THEN [verdict |-> Verdict(RefusalText, "none",
                        "No supporting evidence found in the data.", <<>>),
          entailment |-> "not_run",
          calls |-> <<>>]
    ELSE IF answer_mode = "SUMMARY_MODE"
    THEN SummaryBranch(evidence.evidence, gen)
    ELSE FactBranch(evidence.evidence, entail, gen)

(* -------------------------- style layer (layer 7) ---------------------- *)
\* atoms whose lowercase form contains "do not see" or "don't see"
DontSeeAtoms == DoNotSeeAtoms \cup {"I don't see that."}

\* texts the restyle generation call can return
RestyledTexts == {<<>>, <<"Rewritten in my voice.", "NL">>}

RestyleOutcomes ==
    {[ok |-> FALSE, text |-> <<>>]} \cup {[ok |-> TRUE, text |-> t] : t \in RestyledTexts}

\* index of the last "Sources:" in the answer, 0 when there is none
LastSources(answer) ==
    LET hits == {i \in 1..Len(answer) : answer[i] = "Sources:"}
    IN  IF hits = {} THEN 0 ELSE CHOOSE i \in hits : \A j \in hits : j <= i

\* TRUE when apply_style returns the result untouched, without a call
StyleSkips(answer) ==
    \/ HasAtom(answer, DontSeeAtoms)
    \/ (answer # <<>> /\ Head(answer) = "From my data:")
    \/ StrLen(answer) < 10

\* the answer text apply_style leaves in the result
StyledAnswer(answer, gen) ==
    LET k == LastSources(answer)
        answer_body == IF k = 0 THEN answer ELSE Strip(SubSeq(answer, 1, k - 1))
        sources_line == IF k = 0 THEN <<>> ELSE SubSeq(answer, k, Len(answer))
        raw == IF gen.ok THEN Strip(gen.text) ELSE Strip(answer_body)
        styled == IF raw = <<>> THEN answer_body ELSE raw
    IN  IF sources_line # <<>> THEN styled \o <<"NL", "NL">> \o sources_line ELSE styled

\* StyleLayer.apply_style
apply_style(answer_result, gen) ==
    IF StyleSkips(answer_result.answer)
    THEN [result |-> answer_result, calls |-> <<>>]
    ELSE [result |-> [answer_result EXCEPT !.answer = StyledAnswer(answer_result.answer, gen)],
          calls |-> <<"restyle">>]

(* ---------------------- orchestrator (DigitalTwin.answer) -------------- *)
\* defaults of TWIN_TOP_K and TWIN_MAX_CONTEXT_CHARS
DefaultTopK == 6
DefaultMaxContextChars == 3000
\* other settings of the two
TopKVals == {0, 1, 2, DefaultTopK}
MaxContextCharsVals == {0, 13, 30, DefaultMaxContextChars}

NoResponse == [kind |-> "none", items |-> <<>>]
NoVerdict == Verdict(<<>>, "unset", "", <<>>)
NoEvidence == [evidence |-> <<>>, has_evidence |-> FALSE]

GreetingVerdict ==
    Verdict(<<"Hi. You can ask me about my work, decisions, and messages.">>, "none",
            "Greeting handled as a UI intent without using memory.", <<>>)
HelpVerdict ==
    Verdict(<<"I answer questions about my work using only the data you provided.">>, "none",
            "Help intent handled as a UI intent without using memory.", <<>>)

VARIABLES raw_chunks, summaries, top_k, max_context_chars,
          pc, question, date_range, answer_mode,
          retrieved_chunks, total_candidates, relevant_weeks, retrieval_error, scored,
          extraction, evidence, entailment, answer_result, final_result, calls,
          cache_file, sm, started, generations, cache_writes,
          data_dir, looked_up, response

vars == <<raw_chunks, summaries, top_k, max_context_chars, pc, question, date_range,
          answer_mode, retrieved_chunks, total_candidates, relevant_weeks,
          retrieval_error, scored, extraction, evidence, entailment, answer_result, final_result, calls,
          cache_file, sm, started, generations, cache_writes, data_dir, looked_up,
          response>>

\* what construction fixes
config == <<raw_chunks, summaries, top_k, max_context_chars>>
\* what the parse step fixes
request == <<question, date_range, answer_mode>>
\* what retrieve returns, and the scores list it built before sorting it
retrieval == <<retrieved_chunks, total_candidates, relevant_weeks, retrieval_error, scored>>
\* the cache file, the SemanticMemory constructions and their counters
memory == <<cache_file, sm, started, generations, cache_writes>>
\* the data directory and the last answer of get_chunk_by_id
disk == <<data_dir, looked_up>>
\* what stays outside one request of the twin: the cache file and the
\* constructions, the disk, and the response recorded when extract is
\* called on its own
outside == <<memory, disk, response>>
\* one request of DigitalTwin.answer
pipeline == <<top_k, max_context_chars, summaries, pc, request, retrieval, extraction,
              evidence, entailment, answer_result, final_result, calls>>

\* the processes that construct a SemanticMemory
Constructors == {1, 2}

\* a SemanticMemory object before __init__ ran
Unconstructed ==
    [pc |-> "idle", seq |-> 0, summaries |-> <<>>, saw_cache |-> FALSE, calls |-> <<>>,
     inputs |-> <<>>]

\* the cache file and the construction counters once the twin is built:
\* the file holds what SemanticMemory loaded or generated
MemoryBuilt ==
    /\ data_dir = DefaultDir
    /\ looked_up = << >>
    /\ response = NoResponse
    /\ cache_file = WrittenCacheFile(summaries)
    /\ sm = [p \in Constructors |-> Unconstructed]
    /\ started = 0
    /\ generations = 0
    /\ cache_writes = 0

\* the state before a request when SemanticMemory holds one of sums
InitRequestOver(sums) ==
    /\ raw_chunks = LoadedChunks
    /\ summaries \in sums
    /\ MemoryBuilt
    /\ pc = "idle"
    /\ question = <<>>
    /\ date_range = NoRange
    /\ answer_mode = "FACT_MODE"
    /\ retrieved_chunks = <<>>
    /\ total_candidates = 0
    /\ relevant_weeks = << >>
    /\ retrieval_error = FALSE
    /\ scored = << >>
    /\ extraction = "not_run"
    /\ evidence = NoEvidence
    /\ entailment = "not_run"
    /\ answer_result = NoVerdict
    /\ final_result = NoVerdict
    /\ calls = <<>>

InitRequest == InitRequestOver(SummaryStates)

\* DigitalTwin.__init__ with the default settings
Init ==
    /\ top_k = DefaultTopK
    /\ max_context_chars = DefaultMaxContextChars
    /\ InitRequest

\* twin.py 83-115: greeting and help intents return at once
AnswerIntent ==
    /\ pc = "idle"
    /\ \E q \in Questions :
         /\ is_greeting(q) \/ is_help(q)
         /\ question' = q
         /\ final_result' = IF is_greeting(q) THEN GreetingVerdict ELSE HelpVerdict
    /\ pc' = "returned"
    /\ UNCHANGED <<config, outside, date_range, answer_mode, retrieval,
                   extraction, evidence, entailment, answer_result, calls>>

\* twin.py 117-129: parse the query and pick the answer mode
AnswerParse ==
    /\ pc = "idle"
    /\ \E q \in Questions :
         /\ ~is_greeting(q) /\ ~is_help(q)
         /\ question' = q
         /\ date_range' = parse_date_range(q)
         /\ answer_mode' = answer_mode_of(q, parse_date_range(q))
    /\ pc' = "parsed"
    /\ UNCHANGED <<config, outside, retrieval, extraction, evidence,
                   entailment, answer_result, final_result, calls>>

\* one call of Retrieval.retrieve with similarities drawn from sims
RetrieveWith(sims) ==
    /\ pc = "parsed"
    /\ \E q_ok \in BOOLEAN, c_ok \in BOOLEAN,
          weekSim \in [1..Len(summaries) -> sims],
          chunkSim \in [IdsOf(raw_chunks) -> sims] :
         \E r \in {retrieve(raw_chunks, summaries, question, date_range, top_k,
                            max_context_chars, q_ok, weekSim, c_ok, chunkSim)} :
             /\ retrieved_chunks' = r.chunks
             /\ raw_chunks' = r.store
             /\ total_candidates' = r.total_candidates
             /\ relevant_weeks' = r.relevant_weeks
             /\ retrieval_error' = r.error
             /\ scored' = r.scored
             /\ calls' = calls \o r.calls
    /\ pc' = "retrieved"
    /\ UNCHANGED <<summaries, top_k, max_context_chars, outside, request, extraction,
                   evidence, entailment, answer_result, final_result>>

\* twin.py 131-138: layer 4
Retrieve == RetrieveWith(PipelineSims)

\* one call of EvidenceExtraction.extract with a response drawn from
\* resps; an uncaught exception leaves the caller.  The response is
\* recorded when record is TRUE
ExtractWith(resps, record) ==
    /\ pc = "retrieved"
    /\ \E resp \in resps :
         \E r \in {extract(retrieved_chunks, answer_mode, resp)} :
             /\ extraction' = IF r.called THEN ResponseClass(resp) ELSE "not_run"
             /\ evidence' = IF r.raised THEN evidence
                            ELSE [evidence |-> r.evidence, has_evidence |-> r.has_evidence]
             /\ pc' = IF r.raised THEN "raised" ELSE "extracted"
             /\ calls' = calls \o (IF r.called THEN <<"extract">> ELSE <<>>)
             /\ response' = IF record /\ r.called THEN resp ELSE response
    /\ UNCHANGED <<config, memory, disk, request, retrieval, entailment,
                   answer_result, final_result>>

\* twin.py 140-141: layer 5
Extract == ExtractWith(ExtractionResponses(Len(retrieved_chunks)), FALSE)

\* twin.py 143-149: layer 6
Gate ==
    /\ pc = "extracted"
    /\ \E entail \in EntailmentOutcomes, gen \in GenerationOutcomes :
         \E r \in {generate_answer(question, evidence, answer_mode, entail, gen)} :
             /\ answer_result' = r.verdict
             /\ entailment' = r.entailment
             /\ calls' = calls \o r.calls
    /\ pc' = "gated"
    /\ UNCHANGED <<config, outside, request, retrieval, extraction,
                   evidence, final_result>>

\* twin.py 151-171: layer 7 and the return
Style ==
    /\ pc = "gated"
    /\ \E gen \in RestyleOutcomes :
         \E r \in {apply_style(answer_result, gen)} :
             /\ final_result' = r.result
             /\ calls' = calls \o r.calls
    /\ pc' = "returned"
    /\ UNCHANGED <<config, outside, request, retrieval, extraction,
                   evidence, entailment, answer_result>>

\* the caller asks again: a fresh call of answer()
NextRequest ==
    /\ pc \in {"returned", "raised"}
    /\ pc' = "idle"
    /\ question' = <<>>
    /\ date_range' = NoRange
    /\ answer_mode' = "FACT_MODE"
    /\ retrieved_chunks' = <<>>
    /\ total_candidates' = 0
    /\ relevant_weeks' = << >>
    /\ retrieval_error' = FALSE
    /\ scored' = <<>>
    /\ extraction' = "not_run"
    /\ evidence' = NoEvidence
    /\ entailment' = "not_run"
    /\ answer_result' = NoVerdict
    /\ final_result' = NoVerdict
    /\ calls' = <<>>
    /\ UNCHANGED <<config, outside>>

Next ==
    \/ AnswerIntent
    \/ AnswerParse
    \/ Retrieve
    \/ Extract
    \/ Gate
    \/ Style
    \/ NextRequest

Spec == Init /\ [][Next]_vars

(* ------------- Retrieval.retrieve called on its own --------------------- *)
InitRetrieval ==
    /\ top_k \in TopKVals
    /\ max_context_chars \in MaxContextCharsVals
    /\ InitRequest

RetrieveAny == RetrieveWith(SimVals)

\* the caller drops the result and asks again
RetrieveReturn ==
    /\ pc = "retrieved"
    /\ pc' = "idle"
    /\ question' = <<>>
    /\ date_range' = NoRange
    /\ answer_mode' = "FACT_MODE"
    /\ retrieved_chunks' = <<>>
    /\ total_candidates' = 0
    /\ relevant_weeks' = << >>
    /\ retrieval_error' = FALSE
    /\ scored' = <<>>
    /\ calls' = <<>>
    /\ UNCHANGED <<config, outside, extraction, evidence, entailment, answer_result, final_result>>

NextRetrieval ==
    \/ AnswerParse
    \/ RetrieveAny
    \/ RetrieveReturn

SpecRetrieval == InitRetrieval /\ [][NextRetrieval]_vars

(* ------- Retrieval.retrieve with the cache of an earlier data directory -- *)
\* the cache holds the summaries generated while the archived chat file was
\* still in the data directory; the store was loaded without that file
InitStale ==
    /\ top_k \in TopKVals
    /\ max_context_chars = DefaultMaxContextChars
    /\ InitRequestOver({ArchivedSummaries})

SpecStale == InitStale /\ [][NextRetrieval]_vars

(* ---------- VerifierGate.generate_answer called on its own -------------- *)
\* the scores list of a retrieve that found the whole store and scored every
\* chunk 0.0
StoreScored ==
    [i \in 1..Len(LoadedChunks) |->
        [chunk |-> LoadedChunks[i], score |-> 0, embedded |-> TRUE]]

\* the whole store as a retrieval result
GateRetrieved == [i \in 1..Len(LoadedChunks) |-> [chunk |-> LoadedChunks[i], score |-> 0]]

\* the evidence items extract returns for the store in either answer mode:
\* every quote that passes the fact-mode validations against its chunk
GateEvidenceItems ==
    { EvidenceOf(it, GateRetrieved) :
        it \in { x \in [shape : {"ok"}, chunk_index : 0..(Len(GateRetrieved) - 1),
                         quote : QuoteTexts \cup {<<"start", "SP", "......">>}] :
                    ItemValid(x, GateRetrieved, "FACT_MODE") } }

InitGate ==
    /\ raw_chunks = LoadedChunks
    /\ summaries = << >>
    /\ MemoryBuilt
    /\ top_k = DefaultTopK
    /\ max_context_chars = DefaultMaxContextChars
    /\ pc = "extracted"
    /\ \E q \in Questions :
         /\ ~is_greeting(q) /\ ~is_help(q)
         /\ question = q
         /\ date_range = parse_date_range(q)
         /\ answer_mode = answer_mode_of(q, parse_date_range(q))
    /\ retrieved_chunks = GateRetrieved
    /\ total_candidates = Len(GateRetrieved)
    /\ relevant_weeks = << >>
    /\ retrieval_error = FALSE
    /\ scored = StoreScored
    /\ extraction = "not_run"
    /\ \E evs \in SeqsUpTo(GateEvidenceItems, MaxEvidence) :
         evidence = [evidence |-> evs, has_evidence |-> Len(evs) > 0]
    /\ entailment = "not_run"
    /\ answer_result = NoVerdict
    /\ final_result = NoVerdict
    /\ calls = << >>

\* the caller takes the Verdict and calls again with the same arguments
GateReturn ==
    /\ pc = "gated"
    /\ pc' = "extracted"
    /\ entailment' = "not_run"
    /\ answer_result' = NoVerdict
    /\ calls' = << >>
    /\ UNCHANGED <<config, outside, request, retrieval, extraction,
                   evidence, final_result>>

NextGate ==
    \/ Gate
    \/ GateReturn

SpecGate == InitGate /\ [][NextGate]_vars

(* ------------------- SemanticMemory construction ----------------------- *)
\* before any construction: no cache file, no request under way
InitMemory ==
    /\ raw_chunks \in Stores
    /\ summaries = << >>
    /\ top_k = DefaultTopK
    /\ max_context_chars = DefaultMaxContextChars
    /\ pc = "idle"
    /\ question = << >>
    /\ date_range = NoRange
    /\ answer_mode = "FACT_MODE"
    /\ retrieved_chunks = << >>
    /\ total_candidates = 0
    /\ relevant_weeks = << >>
    /\ retrieval_error = FALSE
    /\ scored = << >>
    /\ extraction = "not_run"
    /\ evidence = NoEvidence
    /\ entailment = "not_run"
    /\ answer_result = NoVerdict
    /\ final_result = NoVerdict
    /\ calls = << >>
    /\ data_dir = DefaultDir
    /\ looked_up = << >>
    /\ response = NoResponse
    /\ cache_file = NoCacheFile
    /\ sm = [p \in Constructors |-> Unconstructed]
    /\ started = 0
    /\ generations = 0
    /\ cache_writes = 0

\* TRUE when no construction is under way
NoneConstructing == \A q \in Constructors : sm[q].pc \in {"idle", "done"}

\* Begin that goes on to generate whatever the cache file holds
Begin_IgnoreCache(p) ==
    /\ sm[p].pc \in {"idle", "done"}
    /\ started < MaxConstructions
    /\ started' = started + 1
    /\ sm' = [sm EXCEPT ![p] = [pc |-> "generating", seq |-> started + 1,
                                summaries |-> << >>,
                                saw_cache |-> cache_file.present, calls |-> << >>,
                                inputs |-> << >>]]
    /\ UNCHANGED <<raw_chunks, pipeline, disk, response, cache_file, generations, cache_writes>>

\* semantic_memory.py 16-29: __init__ up to the test summaries_file.exists();
\* seq is the ordinal of the construction
Begin(p) ==
    /\ sm[p].pc \in {"idle", "done"}
    /\ started < MaxConstructions
    /\ started' = started + 1
    /\ sm' = [sm EXCEPT ![p] = [pc |-> IF cache_file.present THEN "loading" ELSE "generating",
                                seq |-> started + 1,
                                summaries |-> << >>,
                                saw_cache |-> cache_file.present, calls |-> << >>,
                                inputs |-> << >>]]
    /\ UNCHANGED <<raw_chunks, pipeline, disk, response, cache_file, generations, cache_writes>>

\* semantic_memory.py 30-35: json.load of the cache file; a file that does
\* not hold a whole dump raises, and the construction goes on to generate
Load(p) ==
    /\ sm[p].pc = "loading"
    /\ sm' = [sm EXCEPT ![p].pc = IF cache_file.complete THEN "done" ELSE "generating",
                        ![p].summaries = IF cache_file.complete
                                         THEN cache_file.summaries ELSE << >>]
    /\ UNCHANGED <<raw_chunks, pipeline, disk, response, cache_file, started, generations, cache_writes>>

\* semantic_memory.py 38 and 46-100: _generate_weekly_summaries
Generate(p) ==
    /\ sm[p].pc = "generating"
    /\ \E gen_ok, embed_ok \in [{WeekOf(raw_chunks[i].timestamp) :
                             i \in {j \in 1..Len(raw_chunks) :
                                       raw_chunks[j].timestamp # NoTimestamp}} -> BOOLEAN] :
         \E sums \in {generate_weekly_summaries(raw_chunks, gen_ok, embed_ok)} :
             sm' = [sm EXCEPT ![p].pc = "saving",
                              ![p].summaries = sums,
                              ![p].calls = GenerationCalls(Len(sums)),
                              ![p].inputs = SummaryInputs(raw_chunks)]
    /\ generations' = generations + 1
    /\ UNCHANGED <<raw_chunks, pipeline, disk, response, cache_file, started, cache_writes>>

\* semantic_memory.py 43: open(summaries_file, "w") creates or truncates
OpenCache(p) ==
    /\ sm[p].pc = "saving"
    /\ cache_file' = OpenedCacheFile
    /\ sm' = [sm EXCEPT ![p].pc = "writing"]
    /\ UNCHANGED <<raw_chunks, pipeline, disk, response, started, generations, cache_writes>>

\* semantic_memory.py 44: json.dump and the close of the file
WriteCache(p) ==
    /\ sm[p].pc = "writing"
    /\ cache_file' = WrittenCacheFile(sm[p].summaries)
    /\ cache_writes' = cache_writes + 1
    /\ sm' = [sm EXCEPT ![p].pc = "done"]
    /\ UNCHANGED <<raw_chunks, pipeline, disk, response, started, generations>>

\* the data directory changes between two constructions
ChangeStore ==
    /\ NoneConstructing
    /\ started < MaxConstructions
    /\ \E store \in Stores \ {raw_chunks} : raw_chunks' = store
    /\ UNCHANGED <<pipeline, outside>>

\* constructions that may overlap
NextMemory ==
    \/ \E p \in Constructors : Begin(p)
    \/ \E p \in Constructors : Load(p)
    \/ \E p \in Constructors : Generate(p)
    \/ \E p \in Constructors : OpenCache(p)
    \/ \E p \in Constructors : WriteCache(p)
    \/ ChangeStore

SpecMemory == InitMemory /\ [][NextMemory]_vars

\* a construction that starts when no other is under way
BeginAlone(p) == NoneConstructing /\ Begin(p)

\* constructions one after the other
NextMemorySeq ==
    \/ \E p \in Constructors : BeginAlone(p)
    \/ \E p \in Constructors : Load(p)
    \/ \E p \in Constructors : Generate(p)
    \/ \E p \in Constructors : OpenCache(p)
    \/ \E p \in Constructors : WriteCache(p)
    \/ ChangeStore

SpecMemorySeq == InitMemory /\ [][NextMemorySeq]_vars

(* ------- one SemanticMemory constructed over a store, then again -------- *)
InitGenerate ==
    /\ raw_chunks \in GenerationStores
    /\ summaries = << >>
    /\ top_k = DefaultTopK
    /\ max_context_chars = DefaultMaxContextChars
    /\ pc = "idle"
    /\ question = << >>
    /\ date_range = NoRange
    /\ answer_mode = "FACT_MODE"
    /\ retrieved_chunks = << >>
    /\ total_candidates = 0
    /\ relevant_weeks = << >>
    /\ retrieval_error = FALSE
    /\ scored = << >>
    /\ extraction = "not_run"
    /\ evidence = NoEvidence
    /\ entailment = "not_run"
    /\ answer_result = NoVerdict
    /\ final_result = NoVerdict
    /\ calls = << >>
    /\ data_dir = DefaultDir
    /\ looked_up = << >>
    /\ response = NoResponse
    /\ cache_file = NoCacheFile
    /\ sm = [p \in Constructors |-> Unconstructed]
    /\ started = 0
    /\ generations = 0
    /\ cache_writes = 0

NextGenerate ==
    \/ Begin(1)
    \/ Load(1)
    \/ Generate(1)
    \/ OpenCache(1)
    \/ WriteCache(1)

SpecGenerate == InitGenerate /\ [][NextGenerate]_vars

(* --------- EvidenceExtraction.extract called on its own ---------------- *)
\* the two slack chunks as a retrieval result
ExtractRetrieved == SubSeq(GateRetrieved, 3, 4)

\* two items that pass every validation against ExtractRetrieved
ValidItems ==
    { [shape |-> "ok", chunk_index |-> 0, quote |-> <<"cold", "SP", "start", "NL">>],
      [shape |-> "ok", chunk_index |-> 1, quote |-> <<"mail", "SP", "x@y.io">>] }

\* responses that hold more items than MaxItems, all of them valid
LongResponses ==
    {[kind |-> "object", items |-> its] :
        its \in UNION {[1..k -> ValidItems] : k \in (MaxItems + 1)..MaxValidItems}}

InitExtract ==
    /\ raw_chunks = LoadedChunks
    /\ summaries = << >>
    /\ MemoryBuilt
    /\ top_k = DefaultTopK
    /\ max_context_chars = DefaultMaxContextChars
    /\ pc = "retrieved"
    /\ \E q \in {<<"How long did cold start take?">>,
                  <<"What was I working on", "SP", "in", "SP", "Q4 2025?">>} :
         /\ question = q
         /\ date_range = parse_date_range(q)
         /\ answer_mode = answer_mode_of(q, parse_date_range(q))
    /\ retrieved_chunks \in {<< >>, ExtractRetrieved}
    /\ total_candidates = Len(LoadedChunks)
    /\ relevant_weeks = << >>
    /\ retrieval_error = FALSE
    /\ scored = << >>
    /\ extraction = "not_run"
    /\ evidence = NoEvidence
    /\ entailment = "not_run"
    /\ answer_result = NoVerdict
    /\ final_result = NoVerdict
    /\ calls = << >>

ExtractAny ==
    ExtractWith(ExtractionResponses(Len(retrieved_chunks)) \cup LongResponses, TRUE)

\* the caller takes the result and calls again with the same arguments
ExtractReturn ==
    /\ pc \in {"extracted", "raised"}
    /\ pc' = "retrieved"
    /\ extraction' = "not_run"
    /\ evidence' = NoEvidence
    /\ calls' = << >>
    /\ response' = NoResponse
    /\ UNCHANGED <<config, memory, disk, request, retrieval, entailment, answer_result,
                   final_result>>

NextExtract ==
    \/ ExtractAny
    \/ ExtractReturn

SpecExtract == InitExtract /\ [][NextExtract]_vars

(* ------------------------- RawMemory construction ---------------------- *)
\* any mix of the files, before RawMemory is constructed
InitLoad ==
    /\ data_dir \in [{DataPaths[i] : i \in 1..Len(DataPaths)} ->
                        {"absent", "readable", "unreadable"}]
    /\ looked_up = << >>
    /\ response = NoResponse
    /\ raw_chunks = << >>
    /\ summaries = << >>
    /\ top_k = DefaultTopK
    /\ max_context_chars = DefaultMaxContextChars
    /\ pc = "unloaded"
    /\ question = << >>
    /\ date_range = NoRange
    /\ answer_mode = "FACT_MODE"
    /\ retrieved_chunks = << >>
    /\ total_candidates = 0
    /\ relevant_weeks = << >>
    /\ retrieval_error = FALSE
    /\ scored = << >>
    /\ extraction = "not_run"
    /\ evidence = NoEvidence
    /\ entailment = "not_run"
    /\ answer_result = NoVerdict
    /\ final_result = NoVerdict
    /\ calls = << >>
    /\ cache_file = NoCacheFile
    /\ sm = [p \in Constructors |-> Unconstructed]
    /\ started = 0
    /\ generations = 0
    /\ cache_writes = 0

\* raw_memory.py 13-32: RawMemory.__init__
LoadAll ==
    /\ pc = "unloaded"
    /\ raw_chunks' = load_all(data_dir)
    /\ pc' = "loaded"
    /\ UNCHANGED <<top_k, max_context_chars, summaries, request, retrieval, extraction,
                   evidence, entailment, answer_result, final_result, calls, outside>>

\* raw_memory.py 161-166: one call of get_chunk_by_id
GetChunk ==
    /\ pc = "loaded"
    /\ \E chunk_id \in IdsOf(load_all([path \in DOMAIN data_dir |-> "readable"])) :
         looked_up' = get_chunk_by_id(raw_chunks, chunk_id)
    /\ UNCHANGED <<config, pipeline, memory, data_dir, response>>

NextLoad ==
    \/ LoadAll
    \/ GetChunk

SpecLoad == InitLoad /\ [][NextLoad]_vars

(* ------------------------------ properties ----------------------------- *)
Citations == answer_result.citations
CallSet == {calls[i] : i \in 1..Len(calls)}
BlockTexts == {QuestionBlockText, AnswerBlockText}

RECURSIVE SumTextLen(_)
SumTextLen(items) ==
    IF items = <<>> THEN 0 ELSE StrLen(Head(items).chunk.text) + SumTextLen(Tail(items))

\* C1: every Verdict of generate_answer has confidence 'none' if and only
\* if its citations list is empty.
C1_RefusalCitationCoupling ==
    pc = "gated" => (answer_result.confidence = "none" <=> Citations = <<>>)

\* C2: every Verdict of generate_answer has confidence 'none' exactly when
\* its answer is the refusal phrase or one of the two block messages, and a
\* refusal Verdict has no citations.
C2_NoneIsRefusalOrBlock ==
    pc = "gated" =>
        /\ answer_result.confidence = "none"
               <=> answer_result.answer \in {RefusalText} \cup BlockTexts
        /\ answer_result.answer = RefusalText => Citations = <<>>

\* C3: in fact mode, when the entailment check returns 'no', the Verdict is
\* the refusal text with confidence 'none', no citations and the reasoning
\* that the evidence does not support the question, whatever the number of
\* evidence items, and no answer-generation call is made.
C3_FailClosedEntailment ==
    (pc = "gated" /\ answer_mode = "FACT_MODE" /\ entailment = "no") =>
        /\ answer_result = Verdict(RefusalText, "none",
                                   "Evidence does not support the question.", <<>>)
        /\ "answer" \notin CallSet

\* a fact-mode request with two evidence items that the entailment check
\* answered with 'no'
C3_Witness ==
    /\ pc = "gated"
    /\ answer_mode = "FACT_MODE"
    /\ entailment = "no"
    /\ Len(evidence.evidence) >= 2

\* C4: for a sensitive question the Verdict is the fixed block Verdict,
\* the same for every evidence set, answer mode and model-call outcome, and
\* the gate issues no model call.
C4_SensitiveQuestionBlocked ==
    (pc = "gated" /\ contains_sensitive_info(question, "")) =>
        /\ answer_result = Verdict(QuestionBlockText, "none",
               "Question blocked due to requesting sensitive information.", <<>>)
        /\ entailment = "not_run"
        /\ CallSet \cap {"entailment", "answer"} = {}

\* a sensitive question in summary mode that reached the gate with evidence
C4_Witness ==
    /\ pc = "gated"
    /\ contains_sensitive_info(question, "")
    /\ answer_mode = "SUMMARY_MODE"
    /\ evidence.has_evidence
    /\ Len(evidence.evidence) >= 2

\* TRUE when the normalized text is a substring of the normalized text of a
\* chunk of the store that carries the id
VerbatimIn(text, chunk_id) ==
    \E i \in 1..Len(raw_chunks) :
        /\ raw_chunks[i].id = chunk_id
        /\ IsSubstring(Normalize(text), Normalize(raw_chunks[i].text))

\* C5 as stated: each citation's text, whitespace-normalized, is a
\* substring of the normalized text of the chunk its chunk_id names.
C5_CitationsVerbatim ==
    pc = "gated" =>
        \A i \in 1..Len(Citations) : VerbatimIn(Citations[i].text, Citations[i].chunk_id)

\* C5 amended: each citation is built from an evidence quote that,
\* whitespace-normalized, is a substring of the normalized text of the chunk
\* its chunk_id names; the citation's text is that quote, except that a
\* generated answer's citation from a source other than the profile record
\* carries the quote with every email-like substring replaced by
\* '[redacted]'.
C5_CitationsVerbatimUpToRedaction ==
    pc = "gated" =>
        \A i \in 1..Len(Citations) :
            \E j \in 1..Len(evidence.evidence) :
                LET c == Citations[i]
                    ev == evidence.evidence[j]
                IN  /\ ev.chunk_id = c.chunk_id
                    /\ ev.file = c.source
                    /\ VerbatimIn(ev.quote, c.chunk_id)
                    /\ c.text = IF "answer" \in CallSet /\ ~IsIdentityFile(c.source)
                                THEN RedactEmails(ev.quote) ELSE ev.quote
                    /\ ~HasAtom(ev.quote, EmailAtoms) => VerbatimIn(c.text, c.chunk_id)

\* a generated answer with a redacted citation and an unredacted one
C5_Witness ==
    /\ pc = "gated"
    /\ "answer" \in CallSet
    /\ \E i, j \in 1..Len(Citations) :
          /\ HasAtom(Citations[i].text, {"[redacted]"})
          /\ ~HasAtom(Citations[j].text, {"[redacted]"})
          /\ VerbatimIn(Citations[j].text, Citations[j].chunk_id)

\* C6: the chunks retrieve returns have a summed text length of at most
\* max_context_chars and number at most top_k.
C6_BudgetRespected ==
    pc = "retrieved" =>
        /\ SumTextLen(retrieved_chunks) <= max_context_chars
        /\ Len(retrieved_chunks) <= top_k

\* a retrieval that the character budget cut short: chunks were selected,
\* a candidate was left out, and top_k was not reached
C6_Witness ==
    /\ pc = "retrieved"
    /\ retrieved_chunks # <<>>
    /\ Len(retrieved_chunks) < total_candidates
    /\ Len(retrieved_chunks) < top_k

\* C7: when the extraction call fails or its response is not well-formed
\* structured output, extract returns an empty evidence list with
\* has_evidence false, and the gate returns a refusal with confidence 'none'.
C7_MalformedExtractionYieldsNothing ==
    (pc \in {"extracted", "gated"} /\ extraction \notin {"not_run", "well_formed"}) =>
        /\ evidence.evidence = <<>>
        /\ ~evidence.has_evidence
        /\ pc = "gated" => /\ answer_result.confidence = "none"
                           /\ answer_result.answer \in {RefusalText, QuestionBlockText}

\* C8: no failed external call and no malformed structured response makes
\* a layer raise; the request ends in a returned Verdict.
C8_NeverRaises == pc # "raised"

\* C9: every Verdict of generate_answer is a refusal or block with
\* confidence 'none', or a quote-only answer with confidence 'medium', or a
\* generated answer with confidence 'medium' or 'high' and at least one
\* citation.
C9_ThreeOutcomes ==
    pc = "gated" =>
        \/ /\ answer_result.confidence = "none"
           /\ \/ HasAtom(answer_result.answer, DoNotSeeAtoms)
              \/ answer_result.answer \in BlockTexts
        \/ /\ answer_result.confidence = "medium"
           /\ Head(answer_result.answer) = "From my data:"
           /\ "answer" \notin CallSet
        \/ /\ answer_result.confidence \in {"medium", "high"}
           /\ "answer" \in CallSet
           /\ Len(Citations) >= 1

\* C10: a Verdict the gate produced with confidence 'none' reaches the
\* caller of DigitalTwin.answer with its answer text unchanged, and the
\* style pass issues no generation call for it.
C10_RefusalsNotRestyled ==
    (pc = "returned" /\ answer_result.confidence = "none") =>
        /\ final_result.answer = answer_result.answer
        /\ "restyle" \notin CallSet

\* the distinct source chunks of the evidence the gate worked with
EvidenceChunkIds == {evidence.evidence[i].chunk_id : i \in 1..Len(evidence.evidence)}

\* C11: in summary mode with evidence, a generated answer that neither
\* reads as a refusal nor is blocked has confidence 'high' when the evidence
\* items come from at least 2 distinct chunks and 'medium' when they come
\* from exactly 1, whatever the number of citations.
C11_SummaryConfidenceBySources ==
    (/\ pc = "gated"
     /\ answer_mode = "SUMMARY_MODE"
     /\ "answer" \in CallSet
     /\ ~HasAtom(answer_result.answer, DoNotSeeAtoms)
     /\ answer_result.answer \notin BlockTexts) =>
        answer_result.confidence =
            IF Cardinality(EvidenceChunkIds) >= 2 THEN "high" ELSE "medium"

\* a summary-mode answer from two distinct chunks with fewer than two
\* surviving citations, which is graded 'high' all the same
C11_Witness ==
    /\ pc = "gated"
    /\ answer_mode = "SUMMARY_MODE"
    /\ "answer" \in CallSet
    /\ Cardinality(EvidenceChunkIds) >= 2
    /\ Len(Citations) < 2
    /\ answer_result.confidence = "high"

\* C12: in fact mode with evidence, entailment 'yes' and a generated answer
\* that is neither a refusal nor sensitive, the Verdict carries at least one
\* citation and its confidence is 'high' when at least 2 citations survive
\* and 'medium' otherwise.
C12_FactAnswerCited ==
    (/\ pc = "gated"
     /\ answer_mode = "FACT_MODE"
     /\ evidence.has_evidence
     /\ entailment = "yes"
     /\ "answer" \in CallSet
     /\ ~HasAtom(answer_result.answer, DoNotSeeAtoms)
     /\ ~HasAtom(answer_result.answer, SensitiveAtoms)
     /\ answer_result.answer \notin BlockTexts) =>
        /\ Len(Citations) >= 1
        /\ answer_result.confidence = IF Len(Citations) >= 2 THEN "high" ELSE "medium"

\* the evidence items at the positions I, in list order
EvidenceAt(I) ==
    FilterSeq(evidence.evidence, [i \in 1..Len(evidence.evidence) |-> i \in I])

\* C13: in fact mode with entailment state 'unknown', which a failed
\* entailment call and an unparseable response also give, the Verdict is a
\* quote-only answer: 1 to 3 quotes, each the unmodified quote of an
\* evidence item, no two from the same chunk, confidence 'medium', and no
\* answer-generation call.
C13_QuoteOnlyFallback ==
    (pc = "gated" /\ answer_mode = "FACT_MODE" /\ entailment = "unknown") =>
        /\ \E I \in SUBSET (1..Len(evidence.evidence)) :
              /\ I # {}
              /\ Cardinality(I) <= 3
              /\ \A i, j \in I :
                    i # j => evidence.evidence[i].chunk_id # evidence.evidence[j].chunk_id
              /\ answer_result.answer = <<"From my data:", "NL">> \o QuoteLines(EvidenceAt(I))
        /\ answer_result.confidence = "medium"
        /\ "answer" \notin CallSet
        /\ \A o \in {"call_failed", "unparseable"} :
              entailment_state([i \in 1..Len(evidence.evidence) |-> evidence.evidence[i].quote], o)
                  = "unknown"

\* a quote-only Verdict for evidence from four distinct chunks
C13_Witness ==
    /\ pc = "gated"
    /\ answer_mode = "FACT_MODE"
    /\ entailment = "unknown"
    /\ Cardinality(EvidenceChunkIds) = 4

\* C14: when embedding the query fails, retrieve returns no chunks and
\* calls neither the coarse index nor the chunk store; extract then returns
\* no evidence without a generation call; and the gate returns a refusal
\* (the block message when the question itself is sensitive) with
\* confidence 'none' and no citations.
C14_EmbedFailureRefuses ==
    retrieval_error =>
        /\ retrieved_chunks = <<>>
        /\ CallSet \cap {"find_relevant_weeks", "raw_memory", "embed_chunks"} = {}
        /\ pc # "raised"
        /\ pc \in {"extracted", "gated", "returned"} =>
              /\ evidence = NoEvidence
              /\ "extract" \notin CallSet
        /\ pc \in {"gated", "returned"} =>
              /\ answer_result.answer = IF contains_sensitive_info(question, "")
                                        THEN QuestionBlockText ELSE RefusalText
              /\ answer_result.confidence = "none"
              /\ answer_result.citations = <<>>
              /\ CallSet \cap {"entailment", "answer"} = {}

\* a request whose query embedding failed and that the gate refused
C14_Witness ==
    /\ retrieval_error
    /\ pc = "gated"
    /\ answer_result.answer = RefusalText

\* C15: for a personal query whose embedding succeeds, the profile chunk
\* is among the chunks retrieve returns.
C15_IdentityAlwaysRetrieved ==
    (pc = "retrieved" /\ is_personal_query(question) /\ ~retrieval_error) =>
        \E i \in 1..Len(retrieved_chunks) : IsIdentityFile(retrieved_chunks[i].chunk.file)

\* TRUE when the summaries name a chunk the store no longer holds
Stale(sums) ==
    \E i \in 1..Len(sums) : \E j \in 1..Len(sums[i].chunk_ids) :
        sums[i].chunk_ids[j] \notin IdsOf(raw_chunks)

\* C16: of constructions that run one after the other, the first finds no
\* cache, generates the summaries and persists them; every later one loads
\* the persisted summaries and issues no summary-generation or embedding
\* call, whatever the chunk store holds by then.
C16_CachePopulatedOnce ==
    /\ generations <= 1
    /\ cache_writes <= 1
    /\ \A p \in Constructors :
          /\ sm[p].seq = 1 =>
                /\ ~sm[p].saw_cache
                /\ sm[p].pc \in {"generating", "saving", "writing", "done"}
                /\ sm[p].pc = "done" =>
                      /\ generations = 1
                      /\ sm[p].calls = GenerationCalls(Len(sm[p].summaries))
                      /\ cache_file = WrittenCacheFile(sm[p].summaries)
          /\ sm[p].seq >= 2 =>
                /\ sm[p].saw_cache
                /\ sm[p].pc \in {"loading", "done"}
                /\ sm[p].calls = << >>
                /\ sm[p].pc = "done" => sm[p].summaries = cache_file.summaries

\* the last construction of a run loaded summaries that name a chunk the
\* store no longer holds
C16_Witness ==
    /\ started = MaxConstructions
    /\ \E p \in Constructors :
          /\ sm[p].seq = started
          /\ sm[p].pc = "done"
          /\ sm[p].saw_cache
          /\ sm[p].summaries # << >>
          /\ Stale(sm[p].summaries)

\* C17: when constructions overlap while the cache is not populated, at
\* most one of them generates the summaries and the cache file is written
\* once.
C17_SerializedFirstPopulation ==
    /\ generations <= 1
    /\ cache_writes <= 1

\* C18: no two chunks of the loaded store carry the same id, and
\* get_chunk_by_id returns the one chunk with the id asked for.
C18_ChunkIdsUnique ==
    pc = "loaded" =>
        /\ \A i, j \in 1..Len(raw_chunks) : i # j => raw_chunks[i].id # raw_chunks[j].id
        /\ looked_up # << >> =>
              Cardinality({i \in 1..Len(raw_chunks) : raw_chunks[i].id = looked_up[1].id}) = 1

\* C19: the evidence list extract returns never holds more than 6 items.
C19_AtMostSixItems ==
    pc = "extracted" => Len(evidence.evidence) <= 6

\* TRUE when item i of the recorded response passes the three checks
PassesChecks(i) ==
    LET item == response.items[i]
    IN  /\ item.chunk_index \in 0..(Len(retrieved_chunks) - 1)
        /\ StrLen(Strip(item.quote)) >= (IF answer_mode = "SUMMARY_MODE" THEN 5 ELSE 8)
        /\ IsSubstring(Normalize(item.quote),
                       Normalize(retrieved_chunks[item.chunk_index + 1].chunk.text))

\* C20: for a well-formed response the evidence list is the sub-sequence,
\* in response order, of the items that pass the index, length and
\* verbatim checks, each with the stripped quote and the id, file and
\* timestamp of the chunk its index names.
C20_EvidenceIsValidSubsequence ==
    (pc = "extracted" /\ extraction = "well_formed") =>
        LET kept == FilterSeq(response.items,
                              [i \in 1..Len(response.items) |-> PassesChecks(i)])
        IN  /\ Len(evidence.evidence) = Len(kept)
            /\ evidence.has_evidence <=> Len(kept) > 0
            /\ \A k \in 1..Len(kept) :
                  LET chunk == retrieved_chunks[kept[k].chunk_index + 1].chunk
                  IN  evidence.evidence[k] =
                          [quote |-> Strip(kept[k].quote), chunk_id |-> chunk.id,
                           file |-> chunk.file, timestamp |-> chunk.timestamp]

\* a well-formed response whose first item fails a check and whose second
\* item is kept
C20_Witness ==
    /\ pc = "extracted"
    /\ extraction = "well_formed"
    /\ Len(response.items) >= 2
    /\ ~PassesChecks(1)
    /\ PassesChecks(2)
    /\ Len(evidence.evidence) >= 1

\* candidate i of the scores list stands before candidate j in the ranking:
\* by the higher score, and by the earlier insertion when the scores are equal
RankedBefore(i, j) ==
    \/ scored[i].score > scored[j].score
    \/ (scored[i].score = scored[j].score /\ i < j)

\* the candidates in ranking order
Ranked ==
    [r \in 1..Len(scored) |->
        LET i == CHOOSE c \in 1..Len(scored) :
                     Cardinality({j \in 1..Len(scored) : RankedBefore(j, c)}) = r - 1
        IN  [chunk |-> scored[i].chunk, score |-> scored[i].score]]

\* the first k ranked candidates respect top_k and the character budget
PrefixFits(k) ==
    /\ k <= top_k
    /\ SumTextLen(SubSeq(Ranked, 1, k)) <= max_context_chars

\* C21: the list retrieve returns is the longest prefix of the candidates
\* ranked by descending final score, equal scores in insertion order, whose
\* count stays at most top_k and whose cumulative text length stays at most
\* the budget; no candidate ranked after the first violation is selected.
C21_LongestRankedPrefix ==
    (pc = "retrieved" /\ ~retrieval_error) =>
        \E n \in 0..Len(scored) :
            /\ retrieved_chunks = SubSeq(Ranked, 1, n)
            /\ PrefixFits(n)
            /\ \A k \in (n + 1)..Len(scored) : ~PrefixFits(k)

\* the second ranked candidate broke the budget although the third would
\* have fitted, and the two selected first are ordered by insertion alone
C21_Witness ==
    /\ pc = "retrieved" /\ ~retrieval_error
    /\ Len(scored) >= 3
    /\ Len(retrieved_chunks) = 1
    /\ top_k > 1
    /\ Ranked[1].score = Ranked[2].score
    /\ StrLen(Ranked[1].chunk.text) + StrLen(Ranked[2].chunk.text) > max_context_chars
    /\ StrLen(Ranked[1].chunk.text) + StrLen(Ranked[3].chunk.text) <= max_context_chars

\* the model calls generate_answer issued, in order
GateCalls == FilterSeq(calls, [i \in 1..Len(calls) |-> calls[i] \in {"entailment", "answer"}])

\* reasonings of the Verdicts built after the generation call: the block of
\* the post-generation scan and the Verdict that carries assembled citations
AfterGenerationReasonings ==
    {"Answer blocked due to sensitive information detection."}
        \cup {BasedOn(n) : n \in 0..(MaxEvidence + 1)}

\* C22: within one generate_answer call no entailment or generation call is
\* made for a sensitive question or absent evidence; the entailment call is
\* made in fact mode only; the generation call follows an entailment of
\* 'yes' in fact mode and is the only call in summary mode; the
\* post-generation scan and the citation assembly come after the generation
\* call.
C22_GateCallOrder ==
    pc = "gated" =>
        /\ (contains_sensitive_info(question, "") \/ ~evidence.has_evidence
                \/ evidence.evidence = <<>>) => GateCalls = <<>>
        /\ GateCalls \in {<<>>, <<"entailment">>, <<"entailment", "answer">>, <<"answer">>}
        /\ (GateCalls # <<>> /\ Head(GateCalls) = "entailment") => answer_mode = "FACT_MODE"
        /\ GateCalls = <<"entailment", "answer">> => entailment = "yes"
        /\ GateCalls = <<"answer">> => answer_mode = "SUMMARY_MODE"
        /\ answer_mode = "SUMMARY_MODE" => GateCalls \in {<<>>, <<"answer">>}
        /\ (answer_mode = "FACT_MODE" /\ entailment \in {"no", "unknown"}) =>
                GateCalls = <<"entailment">>
        /\ answer_result.reasoning \in AfterGenerationReasonings =>
                GateCalls # <<>> /\ GateCalls[Len(GateCalls)] = "answer"

\* a fact-mode Verdict with assembled citations, built after the entailment
\* call returned 'yes' and the generation call was made
C22_Witness ==
    /\ pc = "gated"
    /\ answer_mode = "FACT_MODE"
    /\ GateCalls = <<"entailment", "answer">>
    /\ entailment = "yes"
    /\ answer_result.citations # <<>>
    /\ answer_result.reasoning \in AfterGenerationReasonings

\* C23: in every Verdict of generate_answer, on every branch that returns
\* citations, no citation from a source other than the profile record has a
\* text with an email-like substring or a sensitive pattern or keyword.
C23_CitationsClean ==
    pc = "gated" =>
        \A i \in 1..Len(Citations) :
            ~IsIdentityFile(Citations[i].source) =>
                /\ ~HasAtom(Citations[i].text, EmailAtoms)
                /\ ~HasAtom(Citations[i].text, SensitiveAtoms)

\* is_from_identity: some evidence item's source file is the profile record
EvidenceFromIdentity ==
    \E i \in 1..Len(evidence.evidence) : IsIdentityFile(evidence.evidence[i].file)

\* C24: no Verdict of generate_answer with confidence 'medium' or 'high' has
\* an answer text, generated or quote-only, that matches a sensitive pattern
\* or keyword when none of its evidence items comes from the profile record.
C24_AnswerNotSensitive ==
    (pc = "gated" /\ answer_result.confidence \in {"medium", "high"}
        /\ ~EvidenceFromIdentity) =>
            ~HasAtom(answer_result.answer, SensitiveAtoms)

\* the batch embedding of the candidates failed: no candidate's id was in
\* chunk_embeddings
BatchEmbeddingFailed ==
    /\ scored # <<>>
    /\ \A i \in 1..Len(scored) : ~scored[i].embedded

\* C25: when the query embedding succeeds and the batch embedding of the
\* candidate chunks fails, retrieve does not raise and returns an empty
\* chunk list.
C25_BatchFailureReturnsNothing ==
    (pc = "retrieved" /\ ~retrieval_error /\ BatchEmbeddingFailed) =>
        retrieved_chunks = <<>>

\* C26: a period whose summary generation or embedding failed is stored
\* with a null embedding, stays in the stored summaries, and is not among
\* the relevant periods find_relevant_weeks returns, so that it seeds no
\* chunk ids.
C26_FailedPeriodNotRelevant ==
    (pc = "retrieved" /\ ~retrieval_error) =>
        \A i \in 1..Len(summaries) :
            ~summaries[i].embedding =>
                \A j \in 1..Len(relevant_weeks) : relevant_weeks[j] # summaries[i].week

\* C27: no call of retrieve, extract, generate_answer or DigitalTwin.answer
\* changes the chunk store: every step of every request leaves it with the
\* same chunks in the same order with the same text.
C27_StoreNeverMutated == [][raw_chunks' = raw_chunks]_vars

\* a request for a personal query returned after retrieve fell back to the
\* entire store and ran the profile rule on it
C27_Witness ==
    /\ pc = "returned"
    /\ is_personal_query(question)
    /\ "raw_memory" \in CallSet
    /\ relevant_weeks = << >>
    /\ date_range = NoRange
    /\ total_candidates = Len(raw_chunks)
    /\ raw_chunks = LoadedChunks

\* the periods of sums whose chunk_ids name the id
PeriodsWith(sums, id) ==
    {i \in 1..Len(sums) : \E j \in 1..Len(sums[i].chunk_ids) : sums[i].chunk_ids[j] = id}

\* C28: after summary generation every chunk that carries a timestamp
\* appears in the chunk_ids of exactly one period and no chunk without a
\* timestamp appears in any period, also when a period holds more chunks
\* than the summary prompt takes.
C28_MembersPartitionTimestamped ==
    \A p \in Constructors :
        sm[p].pc \in {"saving", "writing"} =>
            \A i \in 1..Len(raw_chunks) :
                Cardinality(PeriodsWith(sm[p].summaries, raw_chunks[i].id))
                    = IF raw_chunks[i].timestamp # NoTimestamp THEN 1 ELSE 0

\* C29: every chunk retrieve returns is a chunk of the current chunk store
\* and appears at most once in the returned list, also when the cached
\* summaries are stale.
C29_ReturnedChunksUniqueFromStore ==
    pc = "retrieved" =>
        /\ \A i \in 1..Len(retrieved_chunks) :
              \E k \in 1..Len(raw_chunks) : retrieved_chunks[i].chunk = raw_chunks[k]
        /\ \A i, j \in 1..Len(retrieved_chunks) :
              i # j => retrieved_chunks[i].chunk.id # retrieved_chunks[j].chunk.id

\* the generation call was the last model call of generate_answer
AfterGeneration ==
    /\ pc = "gated"
    /\ GateCalls # <<>>
    /\ GateCalls[Len(GateCalls)] = "answer"

\* C30: the post-generation scan is skipped exactly when some evidence item
\* comes from the profile record: then the generated answer is never
\* replaced by the block message, also with mixed evidence; without such an
\* item a sensitive answer never gets through; and the per-citation filter
\* applies to every citation of another source either way.
C30_ScanSkippedWithIdentityEvidence ==
    AfterGeneration =>
        /\ EvidenceFromIdentity => answer_result.answer # AnswerBlockText
        /\ ~EvidenceFromIdentity => ~HasAtom(answer_result.answer, SensitiveAtoms)
        /\ \A i \in 1..Len(Citations) :
              ~IsIdentityFile(Citations[i].source) =>
                  ~HasAtom(Citations[i].text, SensitiveAtoms)

\* mixed evidence: a sensitive generated answer got through because one
\* item is from the profile record, while the sensitive quote of the other
\* source was dropped from the citations
C30_Witness ==
    /\ AfterGeneration
    /\ EvidenceFromIdentity
    /\ \E i \in 1..Len(evidence.evidence) :
          /\ ~IsIdentityFile(evidence.evidence[i].file)
          /\ HasAtom(evidence.evidence[i].quote, SensitiveAtoms)
    /\ HasAtom(answer_result.answer, SensitiveAtoms)
    /\ answer_result.confidence # "none"
    /\ Citations # <<>>
    /\ \A i \in 1..Len(Citations) : IsIdentityFile(Citations[i].source)
====
